---- MODULE Spec2Model ----
(***************************************************************************)
(* dozey-ai: the recording-to-notes workflow (RecordingItem.tsx:            *)
(* handleGenerateNotes) over the Dexie store (storage.ts), the two provider *)
(* clients (whisperApi.ts, claudeApi.ts) and the React shell that mounts    *)
(* and unmounts RecordingItem (App.tsx, RecordingsList.tsx, AppContext.tsx).*)
(*                                                                         *)
(* Texts are sequences of tokens; the token SP stands for a whitespace      *)
(* character, every other token for a non-whitespace character.             *)
(***************************************************************************)
EXTENDS Integers, Sequences, FiniteSets

\* ------------------------------------------------------------------ bounds

MaxInvocations == 2

MaxStoreFaults == 1

\* The ids the store has assigned (auto-increment from 1).
RecordIds == {1}

\* ------------------------------------------------------------------- texts

SP == "sp"

\* An optional field that is absent (JavaScript undefined).
Undefined == <<"undefined">>

\* JavaScript falsiness of an optional string: undefined or ''.
Falsy(t) == t = Undefined \/ t = <<>>

RECURSIVE TrimStart(_)
TrimStart(s) == IF s # <<>> /\ Head(s) = SP THEN TrimStart(Tail(s)) ELSE s

RECURSIVE TrimEnd(_)
TrimEnd(s) ==
  IF s # <<>> /\ s[Len(s)] = SP THEN TrimEnd(SubSeq(s, 1, Len(s) - 1)) ELSE s

\* String.prototype.trim
trim(s) == TrimEnd(TrimStart(s))

\* str.startsWith(prefix)
startsWith(s, prefix) ==
  Len(s) >= Len(prefix) /\ SubSeq(s, 1, Len(prefix)) = prefix

\* ------------------------------------------------------------- credentials

\* localStorage.getItem returns null for a key that was never saved.
NullKey == <<"null">>

\* What the user may type into the two inputs of the settings page.
KeyInputs == { <<>>, <<"a">>, <<SP, "sk-", "ant-", "a", SP>> }

validateOpenAIKey(key) == startsWith(trim(key), <<"sk-">>)

validateAnthropicKey(key) == startsWith(trim(key), <<"sk-", "ant-">>)

\* A key test that lets every key through, the missing one included.
MissingKeyNeverDetected(key) == FALSE

\* The key tests of handleGenerateNotes: !openaiKey, !anthropicKey.
MissingKey(key) == key = NullKey \/ key = <<>>

\* ---------------------------------------------------------------- messages

NoError == "undefined"

MsgOpenAIKeyMissing ==
  "OpenAI API key not configured. Please add your API key in Settings."

MsgAnthropicKeyMissing ==
  "Anthropic API key not configured. Please add your API key in Settings."

MsgNoTranscript == "No transcript available for note generation."

MsgUpdateFailed == "Failed to update recording in database"

MsgAudioTooLarge == "Audio file too large. Whisper API supports files up to 25MB."

MsgEmptyTranscription ==
  "Transcription returned empty text. The audio may be inaudible or too short."

MsgInvalidOpenAIKey ==
  "Invalid OpenAI API key. Please check your API key in Settings."

MsgOpenAIRateLimit == "OpenAI API rate limit exceeded. Please try again later."

MsgWhisperPayloadTooLarge == "Audio file too large for Whisper API (max 25MB)."

MsgOpenAIOther == "OpenAI API error"

MsgNetwork ==
  "Network error. Please check your internet connection and try again."

MsgEmptyTranscriptInput == "Cannot generate notes from empty transcript."

MsgEmptyNotes == "Claude returned empty notes. Please try again."

MsgInvalidAnthropicKey ==
  "Invalid Anthropic API key. Please check your API key in Settings."

MsgAnthropicRateLimit ==
  "Anthropic API rate limit exceeded. Please try again later."

MsgClaudeBadRequest ==
  "Invalid request to Claude API. The transcript may be too long or malformed."

MsgClaudeOther == "Claude API error"

\* ------------------------------------------------------ transcription client

\* What the Whisper endpoint may answer: a JSON body with a text, an API error
\* with an HTTP status, or a fetch that fails (TypeError).
WhisperTexts == { <<>>, <<SP>>, <<"a">>, <<SP, "b", SP>> }

WhisperOutcomes ==
  [kind : {"text"}, text : WhisperTexts, status : {0}]
    \cup [kind : {"api"}, text : {<<>>}, status : {401, 429}]
    \cup [kind : {"network"}, text : {<<>>}, status : {0}]

\* The mistake of refusing a payload of exactly 25 MB.
AudioTooLargeAtLimit(bytes) == bytes >= 25 * (1024 * 1024)

\* transcribeAudio, before the request: sizeMB = size / (1024 * 1024) > 25.
AudioTooLarge(bytes) == bytes > 25 * (1024 * 1024)

\* The mistake of returning whatever text the provider sent.
transcribeAudioUnchecked(o) ==
  IF o.kind = "text" THEN [ok |-> TRUE, text |-> trim(o.text), msg |-> NoError]
  ELSE [ok |-> FALSE, text |-> <<>>, msg |-> MsgNetwork]

\* transcribeAudio, after the request: the value it resolves with or the
\* message of the Error it throws.
transcribeAudio(o) ==
  IF o.kind = "text"
  THEN IF Falsy(o.text) \/ Len(trim(o.text)) = 0
       THEN [ok |-> FALSE, text |-> <<>>, msg |-> MsgEmptyTranscription]
       ELSE [ok |-> TRUE, text |-> trim(o.text), msg |-> NoError]
  ELSE IF o.kind = "api"
  THEN [ok |-> FALSE, text |-> <<>>,
        msg |-> IF o.status = 401 THEN MsgInvalidOpenAIKey
                ELSE IF o.status = 429 THEN MsgOpenAIRateLimit
                ELSE IF o.status = 413 THEN MsgWhisperPayloadTooLarge
                ELSE MsgOpenAIOther]
  ELSE [ok |-> FALSE, text |-> <<>>, msg |-> MsgNetwork]

\* ------------------------------------------------------------- notes client

\* The content blocks of a Claude response.
TextBlock(t) == [type |-> "text", text |-> t]

ClaudeContents ==
  { << TextBlock(<<SP>>) >>,
    << TextBlock(<<"n">>) >>,
    << [type |-> "tool_use", text |-> <<"x">>], TextBlock(<<SP, "m">>), TextBlock(<<SP>>) >> }

ClaudeOutcomes ==
  [kind : {"content"}, content : ClaudeContents, status : {0}]
    \cup [kind : {"api"}, content : {<<>>}, status : {401, 400}]
    \cup [kind : {"network"}, content : {<<>>}, status : {0}]

\* for (const block of response.content) if (block.type === 'text') notes += block.text
RECURSIVE ConcatTextBlocks(_)
ConcatTextBlocks(content) ==
  IF content = <<>> THEN <<>>
  ELSE (IF Head(content).type = "text" THEN Head(content).text ELSE <<>>)
         \o ConcatTextBlocks(Tail(content))

\* generateNotes, before the request: the input validation.
EmptyTranscriptInput(transcript) == Falsy(transcript) \/ Len(trim(transcript)) = 0

\* generateNotes, after the request.
generateNotes(o) ==
  IF o.kind = "content"
  THEN LET notes == ConcatTextBlocks(o.content)
       IN IF Falsy(notes) \/ Len(trim(notes)) = 0
          THEN [ok |-> FALSE, text |-> <<>>, msg |-> MsgEmptyNotes]
          ELSE [ok |-> TRUE, text |-> trim(notes), msg |-> NoError]
  ELSE IF o.kind = "api"
  THEN [ok |-> FALSE, text |-> <<>>,
        msg |-> IF o.status = 401 THEN MsgInvalidAnthropicKey
                ELSE IF o.status = 429 THEN MsgAnthropicRateLimit
                ELSE IF o.status = 400 THEN MsgClaudeBadRequest
                ELSE MsgClaudeOther]
  ELSE [ok |-> FALSE, text |-> <<>>, msg |-> MsgNetwork]

\* ---------------------------------------------------------------- the state

VARIABLES
  store,        \* db.recordings: id -> Recording
  prop,         \* the recording prop of the mounted RecordingItem of each id
  isProcessing, \* the isProcessing state of the mounted RecordingItem of each id
  currentPage,  \* AppContext: 'home' | 'settings'
  openaiKey,    \* AppContext
  anthropicKey, \* AppContext
  inv,          \* the calls of handleGenerateNotes made so far, in click order
  storeFaults   \* how many store updates were rejected so far

workflowVars ==
  << store, prop, isProcessing, currentPage, openaiKey, anthropicKey, inv,
     storeFaults >>

\* The capture side: the AudioRecorder instances and RecordingControls.
VARIABLES
  recorders,       \* the AudioRecorder instances constructed so far
  streams,         \* the MediaStreams getUserMedia has handed out
  clock,           \* Date.now(), in milliseconds
  lastCall,        \* the AudioRecorder call that settled last, and how
  ref,             \* RecordingControls: audioRecorderRef.current (0 is null)
  isRecording,     \* AppContext
  isPaused,        \* AppContext
  controlsMounted  \* RecordingControls is mounted

recorderVars ==
  << recorders, streams, clock, lastCall, ref, isRecording, isPaused,
     controlsMounted >>

\* The storage service on its own: the whole recordings table.
VARIABLES
  recordings,    \* db.recordings: id -> row
  autoIncrement, \* the last id the table handed out
  returned,      \* what the storage call made last returned
  version        \* the schema version of the database on disk

tableVars == << recordings, autoIncrement, returned, version >>

\* The AudioVisualizer component and the visualizer instances it creates.
VARIABLES
  visualizers,       \* the AudioVisualizer service instances constructed so far
  visualizerRef,     \* visualizerRef.current (0 is null)
  audioStream,       \* the audioStream prop (0 is null)
  visualizerMounted  \* the AudioVisualizer component is mounted

visualizerVars == << visualizers, visualizerRef, audioStream, visualizerMounted >>

vars == << workflowVars, recorderVars, tableVars, visualizerVars >>

\* No AudioRecorder call has settled yet.
NoCall == [op |-> "none", rec |-> 0, outcome |-> "returned", msg |-> "", duration |-> 0]

\* The capture side before the first click: no recorder, no stream.
RecorderInit ==
  /\ recorders = <<>>
  /\ streams = <<>>
  /\ clock = 0
  /\ lastCall = NoCall
  /\ ref = 0
  /\ isRecording = FALSE
  /\ isPaused = FALSE
  /\ controlsMounted = TRUE

\* No storage call has been made yet.
NoReturn == [op |-> "none"]

\* The table of a fresh database.
TableInit ==
  /\ recordings = <<>>
  /\ autoIncrement = 0
  /\ returned = NoReturn
  /\ version = 2

\* No AudioVisualizer component is mounted: it is rendered while recording.
VisualizerInit ==
  /\ visualizers = <<>>
  /\ visualizerRef = 0
  /\ audioStream = 0
  /\ visualizerMounted = FALSE

\* The largest payload handleStopRecording saves: 25 MB exactly.
MaxSavedBytes == 25 * (1024 * 1024)

\* The record handleStopRecording saves.
NewRecording ==
  [status |-> "recorded", transcript |-> Undefined, notes |-> Undefined,
   errorMessage |-> NoError, audioBytes |-> MaxSavedBytes]

\* The prop of a RecordingItem that is not mounted.
Unmounted == [status |-> "unmounted", transcript |-> Undefined, audioBytes |-> 0]

\* The recording props RecordingsList passes down from a query result, cut to
\* the fields the button and handleGenerateNotes read.
Rendered(st) ==
  [r \in DOMAIN st |->
     [status |-> st[r].status, transcript |-> st[r].transcript,
      audioBytes |-> st[r].audioBytes]]

\* Table.update(id, updates): the named fields replaced, the others kept.
\* The mistake of resolving without writing.
updateRecordingDropped(st, id, updates) == st

\* The mistake of writing the fields to every row.
updateRecordingAll(st, id, updates) ==
  [r \in DOMAIN st |->
     [f \in DOMAIN st[r] |-> IF f \in DOMAIN updates THEN updates[f] ELSE st[r][f]]]

updateRecording(st, id, updates) ==
  IF id \in DOMAIN st
  THEN [st EXCEPT ![id] =
          [f \in DOMAIN @ |-> IF f \in DOMAIN updates THEN updates[f] ELSE @[f]]]
  ELSE st

\* A store update may be rejected (the database closed, the quota exceeded);
\* updateRecording then throws MsgUpdateFailed.
FaultChoices == IF storeFaults < MaxStoreFaults THEN {FALSE, TRUE} ELSE {FALSE}

Init ==
  /\ store = [r \in RecordIds |-> NewRecording]
  /\ prop = Rendered(store)
  /\ isProcessing = [r \in RecordIds |-> FALSE]
  /\ currentPage = "home"
  /\ openaiKey \in {NullKey, <<"sk-", "ant-", "a">>}
  /\ anthropicKey \in {NullKey, <<"sk-", "ant-", "a">>}
  /\ inv = <<>>
  /\ storeFaults = 0
  /\ RecorderInit
  /\ TableInit
  /\ VisualizerInit

\* ------------------------------------------------- handleGenerateNotes, parts

\* One call of handleGenerateNotes. pc is the await it is suspended at:
\*   "transcribing"     updateRecording({status: 'transcribing'})
\*   "whisper"          transcribeAudio(...), the request is out
\*   "transcribed"      updateRecording({transcript, status: 'transcribed'})
\*   "generating_notes" updateRecording({status: 'generating_notes'})
\*   "claude"           generateNotes(...), the request is out
\*   "complete"         updateRecording({notes, status: 'complete'})
\*   "catch"            an update of the try block was rejected
\*   "error"            updateRecording({status: 'error', errorMessage})
\*   "done"             the promise is settled
\* recording, openaiKey and anthropicKey are the values the closure captured at
\* the click. The fields from err on record what happened in the call: the
\* error caught, whether an error left the call, the store's status and
\* transcript at the click, the raw provider answers, the statuses written,
\* the requests sent. A settled call keeps none of it.
Settled(r) ==
  [rec |-> r, pc |-> "done",
   recording |-> [transcript |-> Undefined, audioBytes |-> 0],
   openaiKey |-> NullKey, anthropicKey |-> NullKey, transcriptText |-> <<>>,
   attached |-> FALSE, err |-> NoError, rejected |-> FALSE,
   startStatus |-> "recorded", startHadTranscript |-> FALSE,
   whisperText |-> Undefined, claudeText |-> Undefined,
   wrote |-> <<>>, calledWhisper |-> FALSE, calledClaude |-> FALSE]

Call(r) ==
  [rec |-> r, pc |-> "start",
   recording |-> [transcript |-> prop[r].transcript, audioBytes |-> prop[r].audioBytes],
   openaiKey |-> openaiKey, anthropicKey |-> anthropicKey,
   transcriptText |-> IF Falsy(prop[r].transcript) THEN <<>> ELSE prop[r].transcript,
   attached |-> TRUE, err |-> NoError, rejected |-> FALSE,
   startStatus |-> store[r].status, startHadTranscript |-> ~Falsy(store[r].transcript),
   whisperText |-> Undefined, claudeText |-> Undefined,
   wrote |-> <<>>, calledWhisper |-> FALSE, calledClaude |-> FALSE]

\* An update inside the try block, with the await that follows it.
TryUpdate(st, c, updates, nextpc, fault) ==
  IF fault
  THEN [st |-> st, c |-> [c EXCEPT !.pc = "catch", !.err = MsgUpdateFailed]]
  ELSE [st |-> updateRecording(st, c.rec, updates),
        c |-> [c EXCEPT !.pc = nextpc, !.wrote = Append(@, updates.status)]]

\* The catch block: the message kept, the record marked. Its own update is
\* outside any try: when it is rejected the finally block runs and the error
\* leaves handleGenerateNotes.
Catch(st, c, msg, fault) ==
  IF fault
  THEN [st |-> st, c |-> [c EXCEPT !.pc = "error", !.err = msg, !.rejected = TRUE]]
  ELSE [st |-> updateRecording(st, c.rec, [status |-> "error", errorMessage |-> msg]),
        c |-> [c EXCEPT !.pc = "error", !.err = msg, !.wrote = Append(@, "error")]]

\* Step 2 up to its first await: the Anthropic key test, the transcript test,
\* the update to 'generating_notes'.
NoteGenerationStep(st, c, fault) ==
  IF MissingKey(c.anthropicKey) THEN Catch(st, c, MsgAnthropicKeyMissing, fault)
  ELSE IF Falsy(c.transcriptText) \/ Len(trim(c.transcriptText)) = 0
  THEN Catch(st, c, MsgNoTranscript, fault)
  ELSE TryUpdate(st, c, [status |-> "generating_notes"], "generating_notes", fault)

\* Step 1 up to its first await: the OpenAI key test, the update to 'transcribing'.
TranscriptionStep(st, c, fault) ==
  IF MissingKey(c.openaiKey) THEN Catch(st, c, MsgOpenAIKeyMissing, fault)
  ELSE TryUpdate(st, c, [status |-> "transcribing"], "transcribing", fault)

\* handleGenerateNotes from its entry to its first await.
Entry(st, c, fault) ==
  IF Falsy(c.transcriptText) THEN TranscriptionStep(st, c, fault)
  ELSE NoteGenerationStep(st, c, fault)

\* The Generate Notes button: disabled={isProcessing || recording.status === 'complete'}
ButtonDisabled(r) == isProcessing[r] \/ prop[r].status = "complete"

\* A provider answers after seconds, the live query of the local table after
\* milliseconds: by the time a response arrives the mounted items have been
\* rendered with the table as it is.
QueryDelivered == currentPage = "home" => prop = Rendered(store)

Commit(i, res, fault) ==
  /\ store' = res.st
  /\ inv' = [inv EXCEPT ![i] = res.c]
  /\ storeFaults' = IF fault THEN storeFaults + 1 ELSE storeFaults

\* ------------------------------------------------------------------ actions

\* A click on Generate Notes of record r: handleGenerateNotes runs to its
\* first await.
ClickGenerateNotes(r) ==
  /\ currentPage = "home"
  /\ ~ButtonDisabled(r)
  /\ Len(inv) < MaxInvocations
  /\ \E fault \in FaultChoices :
       LET res == Entry(store, Call(r), fault)
       IN /\ store' = res.st
          /\ inv' = Append(inv, res.c)
          /\ storeFaults' = IF fault THEN storeFaults + 1 ELSE storeFaults
  /\ isProcessing' = [isProcessing EXCEPT ![r] = TRUE]
  /\ UNCHANGED << prop, currentPage, openaiKey, anthropicKey >>
  /\ UNCHANGED << recorderVars, tableVars, visualizerVars >>

\* The update to 'transcribing' has resolved: transcribeAudio checks the size
\* and sends the request.
CallWhisper(i) ==
  /\ inv[i].pc = "transcribing"
  /\ IF AudioTooLarge(inv[i].recording.audioBytes)
     THEN \E fault \in FaultChoices :
            Commit(i, Catch(store, inv[i], MsgAudioTooLarge, fault), fault)
     ELSE /\ inv' = [inv EXCEPT ![i].pc = "whisper", ![i].calledWhisper = TRUE]
          /\ UNCHANGED << store, storeFaults >>
  /\ UNCHANGED << prop, isProcessing, currentPage, openaiKey, anthropicKey >>
  /\ UNCHANGED << recorderVars, tableVars, visualizerVars >>

\* The Whisper request settles: the transcript is saved, or the catch block runs.
WhisperResponds(i) ==
  /\ inv[i].pc = "whisper"
  /\ QueryDelivered
  /\ \E o \in WhisperOutcomes, fault \in FaultChoices :
       LET got == transcribeAudio(o)
           c == [inv[i] EXCEPT !.whisperText = IF o.kind = "text" THEN o.text ELSE @]
       IN IF got.ok
          THEN Commit(i,
                 TryUpdate(store, [c EXCEPT !.transcriptText = got.text],
                           [transcript |-> got.text, status |-> "transcribed"],
                           "transcribed", fault),
                 fault)
          ELSE Commit(i, Catch(store, c, got.msg, fault), fault)
  /\ UNCHANGED << prop, isProcessing, currentPage, openaiKey, anthropicKey >>
  /\ UNCHANGED << recorderVars, tableVars, visualizerVars >>

\* The update to 'transcribed' has resolved: step 2 begins.
AfterTranscribed(i) ==
  /\ inv[i].pc = "transcribed"
  /\ \E fault \in FaultChoices :
       Commit(i, NoteGenerationStep(store, inv[i], fault), fault)
  /\ UNCHANGED << prop, isProcessing, currentPage, openaiKey, anthropicKey >>
  /\ UNCHANGED << recorderVars, tableVars, visualizerVars >>

\* The update to 'generating_notes' has resolved: generateNotes validates its
\* input and sends the request.
CallClaude(i) ==
  /\ inv[i].pc = "generating_notes"
  /\ IF EmptyTranscriptInput(inv[i].transcriptText)
     THEN \E fault \in FaultChoices :
            Commit(i, Catch(store, inv[i], MsgEmptyTranscriptInput, fault), fault)
     ELSE /\ inv' = [inv EXCEPT ![i].pc = "claude", ![i].calledClaude = TRUE]
          /\ UNCHANGED << store, storeFaults >>
  /\ UNCHANGED << prop, isProcessing, currentPage, openaiKey, anthropicKey >>
  /\ UNCHANGED << recorderVars, tableVars, visualizerVars >>

\* The Claude request settles: the notes are saved, or the catch block runs.
ClaudeResponds(i) ==
  /\ inv[i].pc = "claude"
  /\ QueryDelivered
  /\ \E o \in ClaudeOutcomes, fault \in FaultChoices :
       LET got == generateNotes(o)
           c == [inv[i] EXCEPT !.claudeText =
                   IF o.kind = "content" THEN ConcatTextBlocks(o.content) ELSE @]
       IN IF got.ok
          THEN Commit(i,
                 TryUpdate(store, c, [notes |-> got.text, status |-> "complete"],
                           "complete", fault),
                 fault)
          ELSE Commit(i, Catch(store, c, got.msg, fault), fault)
  /\ UNCHANGED << prop, isProcessing, currentPage, openaiKey, anthropicKey >>
  /\ UNCHANGED << recorderVars, tableVars, visualizerVars >>

\* An update of the try block was rejected: the catch block runs.
CatchUpdateFailure(i) ==
  /\ inv[i].pc = "catch"
  /\ \E fault \in FaultChoices :
       Commit(i, Catch(store, inv[i], inv[i].err, fault), fault)
  /\ UNCHANGED << prop, isProcessing, currentPage, openaiKey, anthropicKey >>
  /\ UNCHANGED << recorderVars, tableVars, visualizerVars >>

\* The last update has settled: setShowNotes(true) after 'complete', then the
\* finally block. setIsProcessing acts on the component instance that was
\* clicked; on an unmounted instance it does nothing.
Finally(i) ==
  /\ inv[i].pc \in {"complete", "error"}
  /\ inv' = [inv EXCEPT ![i] = Settled(inv[i].rec)]
  /\ isProcessing' =
       IF inv[i].attached THEN [isProcessing EXCEPT ![inv[i].rec] = FALSE]
       ELSE isProcessing
  /\ UNCHANGED << store, prop, currentPage, openaiKey, anthropicKey, storeFaults >>
  /\ UNCHANGED << recorderVars, tableVars, visualizerVars >>

\* useLiveQuery delivers the table as it is now: every RecordingItem is
\* rendered again with the new recording prop.
LiveQueryRefresh ==
  /\ currentPage = "home"
  /\ prop # Rendered(store)
  /\ prop' = Rendered(store)
  /\ UNCHANGED << store, isProcessing, currentPage, openaiKey, anthropicKey, inv,
                  storeFaults >>
  /\ UNCHANGED << recorderVars, tableVars, visualizerVars >>

\* navigateTo('settings'): AppContent stops rendering HomePage, so every
\* RecordingItem is unmounted; the calls in flight go on.
NavigateToSettings ==
  /\ currentPage = "home"
  /\ currentPage' = "settings"
  /\ prop' = [r \in RecordIds |-> Unmounted]
  /\ isProcessing' = [r \in RecordIds |-> FALSE]
  /\ inv' = [i \in DOMAIN inv |-> [inv[i] EXCEPT !.attached = FALSE]]
  /\ UNCHANGED << store, openaiKey, anthropicKey, storeFaults >>
  /\ UNCHANGED << recorderVars, tableVars, visualizerVars >>

\* navigateTo('home'): HomePage is rendered again; RecordingsList queries the
\* table and mounts a new RecordingItem per record, isProcessing = false.
NavigateToHome ==
  /\ currentPage = "settings"
  /\ currentPage' = "home"
  /\ prop' = Rendered(store)
  /\ isProcessing' = [r \in RecordIds |-> FALSE]
  /\ UNCHANGED << store, openaiKey, anthropicKey, inv, storeFaults >>
  /\ UNCHANGED << recorderVars, tableVars, visualizerVars >>

\* SettingsPage.handleSaveOpenAI: an empty or ill-formed input is refused.
SaveOpenAIKey ==
  /\ currentPage = "settings"
  /\ \E input \in KeyInputs :
       openaiKey' = IF Len(trim(input)) = 0 \/ ~validateOpenAIKey(input)
                    THEN openaiKey ELSE trim(input)
  /\ UNCHANGED << store, prop, isProcessing, currentPage, anthropicKey, inv,
                  storeFaults >>
  /\ UNCHANGED << recorderVars, tableVars, visualizerVars >>

\* SettingsPage.handleSaveAnthropic.
SaveAnthropicKey ==
  /\ currentPage = "settings"
  /\ \E input \in KeyInputs :
       anthropicKey' = IF Len(trim(input)) = 0 \/ ~validateAnthropicKey(input)
                       THEN anthropicKey ELSE trim(input)
  /\ UNCHANGED << store, prop, isProcessing, currentPage, openaiKey, inv,
                  storeFaults >>
  /\ UNCHANGED << recorderVars, tableVars, visualizerVars >>

Next ==
  \/ \E r \in RecordIds : ClickGenerateNotes(r)
  \/ \E i \in DOMAIN inv : CallWhisper(i)
  \/ \E i \in DOMAIN inv : WhisperResponds(i)
  \/ \E i \in DOMAIN inv : AfterTranscribed(i)
  \/ \E i \in DOMAIN inv : CallClaude(i)
  \/ \E i \in DOMAIN inv : ClaudeResponds(i)
  \/ \E i \in DOMAIN inv : CatchUpdateFailure(i)
  \/ \E i \in DOMAIN inv : Finally(i)
  \/ LiveQueryRefresh
  \/ NavigateToSettings
  \/ NavigateToHome
  \/ SaveOpenAIKey
  \/ SaveAnthropicKey

Spec == Init /\ [][Next]_vars

\* The payloads transcribeAudio is given: 25 MB exactly and one byte more.
SizeInputs == {MaxSavedBytes, MaxSavedBytes + 1}

\* The workflow on a record whose audio has one of these sizes.
PayloadInit ==
  /\ \E bytes \in SizeInputs :
       store = [r \in RecordIds |-> [NewRecording EXCEPT !.audioBytes = bytes]]
  /\ prop = Rendered(store)
  /\ isProcessing = [r \in RecordIds |-> FALSE]
  /\ currentPage = "home"
  /\ openaiKey \in {NullKey, <<"sk-", "ant-", "a">>}
  /\ anthropicKey \in {NullKey, <<"sk-", "ant-", "a">>}
  /\ inv = <<>>
  /\ storeFaults = 0
  /\ RecorderInit
  /\ TableInit
  /\ VisualizerInit

PayloadSpec == PayloadInit /\ [][Next]_vars

\* ------------------------------------------------------------ AudioRecorder

\* Date.now() does not go beyond this.
MaxClock == 3000

\* The time that passes between two events, in milliseconds.
ClockSteps == {500}

\* The chunks a recording collects at most.
MaxChunks == 2

MsgStartNotInitialized == "Recorder not initialized. Call initialize() first."

MsgNotInitialized == "Recorder not initialized"

MsgNotRecording == "Recorder is not recording"

MsgNotPaused == "Recorder is not paused"

MsgPermissionDenied ==
  "Microphone permission denied. Please allow microphone access in your browser settings."

MsgNoMicrophone == "No microphone found. Please connect a microphone and try again."

MsgInitFailed == "Failed to initialize audio recorder"

\* What MediaRecorder throws when a method does not fit its state.
InvalidStateError == "InvalidStateError"

\* A constructed AudioRecorder. mediaRecorder and stream are the references
\* the instance holds ("null" and 0 when it holds none); state is the state of
\* the MediaRecorder object initialize() created, which lives on when the
\* reference is dropped; onstop is that object's stop handler: "unset", "set"
\* by stop(), "queued" when the stop event is on its way. pending tells
\* which promise of the instance is unsettled, initCalled that initialize()
\* has been called (its one caller calls it once per instance), duration
\* what stop() resolved with while handleStopRecording saves it. acquired, recordedMs and
\* misused are kept for the properties: the stream getUserMedia handed to the
\* instance, the time spent in state recording, whether start() has ever
\* succeeded, whether a call has failed.
NewAudioRecorder ==
  [mediaRecorder |-> "null", state |-> "inactive", stream |-> 0,
   audioChunks |-> 0, startTime |-> 0, pausedDuration |-> 0, pauseStartTime |-> 0,
   onstop |-> "unset", pending |-> "none", initCalled |-> FALSE, duration |-> 0,
   acquired |-> 0, recordedMs |-> 0, started |-> FALSE, misused |-> FALSE]

\* The outcome of one AudioRecorder call on instance r.
Returned(r) == [r |-> r, outcome |-> "returned", msg |-> ""]

Threw(r, msg) == [r |-> [r EXCEPT !.misused = TRUE], outcome |-> "threw", msg |-> msg]

\* The tracks of every stream have been left as they are.
StopTracksForgotten(ss, id) == ss

\* stream.getTracks().forEach(track => track.stop())
StopTracks(ss, id) == IF id = 0 THEN ss ELSE [ss EXCEPT ![id] = "ended"]

\* AudioRecorder.cleanup, the instance's part.
cleanup(r) ==
  [r EXCEPT !.stream = 0, !.mediaRecorder = "null", !.audioChunks = 0]

\* What getUserMedia and the construction that follows it can come to.
InitializeOutcomes ==
  {"NotAllowedError", "NotFoundError", "NotReadableError", "NoSupportedFormat",
   "ConstructorThrows", "ready"}

\* The outcomes in which getUserMedia has resolved with a stream.
StreamAcquired(o) == o \in {"NoSupportedFormat", "ConstructorThrows", "ready"}

\* AudioRecorder.initialize from the point where getUserMedia settles. ss is
\* the streams handed out so far.
initialize(r, ss, o) ==
  LET id == Len(ss) + 1
      ss1 == IF StreamAcquired(o) THEN Append(ss, "live") ELSE ss
      r1 == IF StreamAcquired(o) THEN [r EXCEPT !.stream = id, !.acquired = id] ELSE r
  IN IF o = "ready"
     THEN [r |-> [r1 EXCEPT !.mediaRecorder = "set", !.state = "inactive",
                            !.pending = "none"],
           ss |-> ss1, outcome |-> "returned", msg |-> ""]
     ELSE [r |-> [cleanup(r1) EXCEPT !.pending = "none", !.misused = TRUE],
           ss |-> StopTracks(ss1, r1.stream),
           outcome |-> "threw",
           msg |-> IF o = "NotAllowedError" THEN MsgPermissionDenied
                   ELSE IF o = "NotFoundError" THEN MsgNoMicrophone
                   ELSE MsgInitFailed]

\* AudioRecorder.start: the state is reset before MediaRecorder.start, which
\* throws unless the MediaRecorder is inactive.
start(r, now) ==
  IF r.mediaRecorder = "null" THEN Threw(r, MsgStartNotInitialized)
  ELSE LET r1 == [r EXCEPT !.audioChunks = 0, !.startTime = now, !.pausedDuration = 0]
       IN IF r.state # "inactive" THEN Threw(r1, InvalidStateError)
          ELSE Returned([r1 EXCEPT !.state = "recording", !.started = TRUE])

\* AudioRecorder.pause
pause(r, now) ==
  IF r.mediaRecorder = "null" THEN Threw(r, MsgNotInitialized)
  ELSE IF r.state # "recording" THEN Threw(r, MsgNotRecording)
  ELSE Returned([r EXCEPT !.pauseStartTime = now, !.state = "paused"])

\* AudioRecorder.resume
resume(r, now) ==
  IF r.mediaRecorder = "null" THEN Threw(r, MsgNotInitialized)
  ELSE IF r.state # "paused" THEN Threw(r, MsgNotPaused)
  ELSE Returned([r EXCEPT !.pausedDuration = @ + (now - r.pauseStartTime),
                          !.state = "recording"])

\* MediaRecorder.stop on an inactive recorder: older browsers throw
\* InvalidStateError, current ones return and fire no event.
StopInactiveChoices == {"throws", "returns"}

\* AudioRecorder.stop up to the return of the promise: rejected, or pending
\* until the stop event.
stop(r, inactiveChoice) ==
  IF r.mediaRecorder = "null" THEN Threw(r, MsgNotInitialized)
  ELSE IF r.state = "inactive"
  THEN IF inactiveChoice = "throws"
       THEN Threw([r EXCEPT !.onstop = "set"], InvalidStateError)
       ELSE [r |-> [r EXCEPT !.onstop = "set", !.pending = "stop", !.misused = TRUE],
             outcome |-> "pending", msg |-> ""]
  ELSE [r |-> [r EXCEPT !.onstop = "queued", !.state = "inactive", !.pending = "stop"],
        outcome |-> "pending", msg |-> ""]

\* Math.round(ms / 1000) for ms >= 0
RoundToSeconds(ms) == (ms + 500) \div 1000

\* The duration the onstop handler computes.
Duration(r, now) == RoundToSeconds((now - r.startTime) - r.pausedDuration)

\* AudioRecorder.dispose, the instance's part: a MediaRecorder that is not
\* inactive is stopped, then cleanup.
dispose(r) ==
  cleanup(IF r.mediaRecorder = "set" /\ r.state # "inactive"
          THEN [r EXCEPT !.state = "inactive",
                         !.onstop = IF @ = "set" THEN "queued" ELSE @]
          ELSE r)

\* The onstop handler stop() installs: the duration is computed, the promise
\* resolved, the instance cleaned up. With the MediaRecorder reference already
\* dropped the handler throws a TypeError and the promise stays pending.
onstop(r, ss, now) ==
  IF r.mediaRecorder = "null"
  THEN [r |-> [r EXCEPT !.onstop = "unset"], ss |-> ss,
        outcome |-> "pending", duration |-> 0]
  ELSE [r |-> [cleanup(r) EXCEPT !.onstop = "unset", !.pending = "none"],
        ss |-> StopTracks(ss, r.stream),
        outcome |-> "returned", duration |-> Duration(r, now)]

\* ------------------------------------------- AudioRecorder, called directly

\* One AudioRecorder, constructed; nothing else moves.
RecorderClassInit ==
  /\ store = [r \in RecordIds |-> NewRecording]
  /\ prop = Rendered(store)
  /\ isProcessing = [r \in RecordIds |-> FALSE]
  /\ currentPage = "home"
  /\ openaiKey = NullKey
  /\ anthropicKey = NullKey
  /\ inv = <<>>
  /\ storeFaults = 0
  /\ recorders = << NewAudioRecorder >>
  /\ streams = <<>>
  /\ clock = 0
  /\ lastCall = NoCall
  /\ ref = 0
  /\ isRecording = FALSE
  /\ isPaused = FALSE
  /\ controlsMounted = FALSE
  /\ TableInit
  /\ VisualizerInit

\* What a direct call leaves alone.
ClassFrame ==
  UNCHANGED << workflowVars, tableVars, visualizerVars, ref, isRecording, isPaused,
               controlsMounted, clock >>

\* A synchronous call, or the synchronous part of stop(), has come to res.
Settle(op, i, res) ==
  /\ recorders' = [recorders EXCEPT ![i] = res.r]
  /\ lastCall' = [op |-> op, rec |-> i, outcome |-> res.outcome, msg |-> res.msg,
                  duration |-> 0]

\* initialize() is called: getUserMedia is asked for a stream.
ApiInitialize(i) ==
  /\ ~recorders[i].initCalled
  /\ recorders' = [recorders EXCEPT ![i].initCalled = TRUE, ![i].pending = "initialize"]
  /\ lastCall' = [op |-> "initialize", rec |-> i, outcome |-> "pending", msg |-> "",
                  duration |-> 0]
  /\ UNCHANGED streams
  /\ ClassFrame

\* getUserMedia settles and initialize() with it.
ApiInitializeSettles(i) ==
  /\ recorders[i].pending = "initialize"
  /\ \E o \in InitializeOutcomes :
       LET res == initialize(recorders[i], streams, o)
       IN /\ recorders' = [recorders EXCEPT ![i] = res.r]
          /\ streams' = res.ss
          /\ lastCall' = [op |-> "initialize", rec |-> i, outcome |-> res.outcome,
                          msg |-> res.msg, duration |-> 0]
  /\ ClassFrame

ApiStart(i) ==
  /\ recorders[i].pending = "none"
  /\ Settle("start", i, start(recorders[i], clock))
  /\ UNCHANGED streams
  /\ ClassFrame

ApiPause(i) ==
  /\ recorders[i].pending = "none"
  /\ Settle("pause", i, pause(recorders[i], clock))
  /\ UNCHANGED streams
  /\ ClassFrame

ApiResume(i) ==
  /\ recorders[i].pending = "none"
  /\ Settle("resume", i, resume(recorders[i], clock))
  /\ UNCHANGED streams
  /\ ClassFrame

ApiStop(i) ==
  /\ recorders[i].pending = "none"
  /\ \E choice \in StopInactiveChoices :
       Settle("stop", i, stop(recorders[i], choice))
  /\ UNCHANGED streams
  /\ ClassFrame

\* The stop event of the MediaRecorder is delivered.
ApiStopEvent(i) ==
  /\ recorders[i].onstop = "queued"
  /\ LET res == onstop(recorders[i], streams, clock)
     IN /\ recorders' = [recorders EXCEPT ![i] = res.r]
        /\ streams' = res.ss
        /\ lastCall' = [op |-> "stop", rec |-> i, outcome |-> res.outcome, msg |-> "",
                        duration |-> res.duration]
  /\ ClassFrame

\* ondataavailable with data: one more chunk.
DataAvailable(i) ==
  /\ recorders[i].state = "recording"
  /\ recorders[i].audioChunks < MaxChunks
  /\ recorders' = [recorders EXCEPT ![i].audioChunks = @ + 1]
  /\ UNCHANGED << workflowVars, tableVars, visualizerVars, streams, clock, lastCall, ref, isRecording,
                  isPaused, controlsMounted >>

\* Time passes. A stop event that is queued is delivered before the clock
\* moves on.
Tick ==
  /\ \A i \in DOMAIN recorders : recorders[i].onstop # "queued"
  /\ \E d \in ClockSteps :
       /\ clock + d <= MaxClock
       /\ clock' = clock + d
       /\ recorders' =
            [i \in DOMAIN recorders |->
               IF recorders[i].state = "recording"
               THEN [recorders[i] EXCEPT !.recordedMs = @ + d]
               ELSE recorders[i]]
  /\ UNCHANGED << workflowVars, tableVars, visualizerVars, streams, lastCall, ref, isRecording,
                  isPaused, controlsMounted >>

RecorderClassNext ==
  \/ \E i \in DOMAIN recorders : ApiInitialize(i)
  \/ \E i \in DOMAIN recorders : ApiInitializeSettles(i)
  \/ \E i \in DOMAIN recorders : ApiStart(i)
  \/ \E i \in DOMAIN recorders : ApiPause(i)
  \/ \E i \in DOMAIN recorders : ApiResume(i)
  \/ \E i \in DOMAIN recorders : ApiStop(i)
  \/ \E i \in DOMAIN recorders : ApiStopEvent(i)
  \/ \E i \in DOMAIN recorders : DataAvailable(i)
  \/ Tick

RecorderClassSpec == RecorderClassInit /\ [][RecorderClassNext]_vars

\* ------------------------------------------------------ the storage service

\* A field no value was given to. Texts and tag lists use Undefined, the
\* status, the priority and the study flag ("true", "false") this word, the
\* dates (milliseconds, never negative) NoDate.
Absent == "undefined"

NoDate == 0 - 1

\* The fields of a row of db.recordings, the id apart (it is the key).
RowFields ==
  {"filename", "customName", "date", "duration", "audioBytes", "transcript",
   "notes", "status", "errorMessage", "tags", "category", "subject",
   "searchText", "priority", "isStudied", "lastModified"}

\* The object handleStopRecording hands to saveRecording: the fields it does
\* not name are undefined.
RecordedRow(filename, date, duration, bytes) ==
  [filename |-> filename, customName |-> Undefined, date |-> date,
   duration |-> duration, audioBytes |-> bytes, transcript |-> Undefined,
   notes |-> Undefined, status |-> "recorded", errorMessage |-> NoError,
   tags |-> Undefined, category |-> Undefined, subject |-> Undefined,
   searchText |-> Undefined, priority |-> Absent, isStudied |-> Absent,
   lastModified |-> NoDate]

\* The mistake of handing out the smallest key that is free.
saveRecordingReusing(table, auto, row) ==
  LET id == CHOOSE k \in 1 .. (auto + 1) :
              k \notin DOMAIN table /\ \A j \in 1 .. (k - 1) : j \in DOMAIN table
  IN [table |-> [k \in DOMAIN table \cup {id} |-> IF k = id THEN row ELSE table[k]],
      auto |-> IF id > auto THEN id ELSE auto, id |-> id]

\* Table.add with an auto-incremented key: the key is one more than the last
\* one handed out, whether or not that row still exists.
saveRecording(table, auto, row) ==
  LET id == auto + 1
  IN [table |-> [k \in DOMAIN table \cup {id} |-> IF k = id THEN row ELSE table[k]],
      auto |-> id, id |-> id]

\* Table.get: the row, or undefined.
getRecording(table, id) ==
  IF id \in DOMAIN table THEN [found |-> TRUE, row |-> table[id]]
  ELSE [found |-> FALSE, row |-> <<>>]

\* The number Table.update resolves to: 1 when the key exists, else 0. No
\* error is raised for a key that does not exist.
updatedCount(table, id) == IF id \in DOMAIN table THEN 1 ELSE 0

\* Table.delete
deleteRecording(table, id) == [k \in DOMAIN table \ {id} |-> table[k]]

\* A row as the queries return it: the key is part of the object.
WithId(table, id) == [id |-> id, row |-> table[id]]

\* Table.toArray: the rows in the order of the primary key.
RECURSIVE toArrayFrom(_, _)
toArrayFrom(table, ids) ==
  IF ids = {} THEN <<>>
  ELSE LET k == CHOOSE k \in ids : \A j \in ids : k <= j
       IN << WithId(table, k) >> \o toArrayFrom(table, ids \ {k})

toArray(table) == toArrayFrom(table, DOMAIN table)

\* orderBy('date').reverse().toArray(): the date index backwards; entries of
\* one date are ordered by the primary key, backwards as well.
RECURSIVE orderByDateReverse(_, _)
orderByDateReverse(table, ids) ==
  IF ids = {} THEN <<>>
  ELSE LET k == CHOOSE k \in ids : \A j \in ids :
                   \/ table[k].date > table[j].date
                   \/ table[k].date = table[j].date /\ k >= j
       IN << WithId(table, k) >> \o orderByDateReverse(table, ids \ {k})

\* The mistake of reading the table in the order of the primary key.
getAllRecordingsByKey(table) == toArray(table)

getAllRecordings(table) == orderByDateReverse(table, DOMAIN table)

\* The characters of the texts: letters in two cases, a punctuation mark and
\* the space.
Lower == [c \in {"a", "b", "A", ",", SP} |-> IF c = "A" THEN "a" ELSE c]

\* \w of the regular expression
WordChars == {"a", "b", "A"}

toLowerCase(s) == [i \in 1..Len(s) |-> Lower[s[i]]]

\* replace(/[^\w\s]/g, ' ')
replaceSpecial(s) ==
  [i \in 1..Len(s) |-> IF s[i] \in WordChars \cup {SP} THEN s[i] ELSE SP]

\* replace(/\s+/g, ' ')
RECURSIVE collapseSpaces(_)
collapseSpaces(s) ==
  IF Len(s) <= 1 THEN s
  ELSE IF s[1] = SP /\ s[2] = SP THEN collapseSpaces(Tail(s))
       ELSE << s[1] >> \o collapseSpaces(Tail(s))

\* parts.join(' ')
RECURSIVE join(_)
join(parts) ==
  IF parts = <<>> THEN <<>>
  ELSE IF Len(parts) = 1 THEN parts[1]
       ELSE parts[1] \o << SP >> \o join(Tail(parts))

\* value || ''
OrEmpty(t) == IF Falsy(t) THEN <<>> ELSE t

\* recording.tags || []; a tag is one character, its text that character.
tagTexts(tags) ==
  IF tags = Undefined THEN <<>> ELSE [i \in 1..Len(tags) |-> << tags[i] >>]

generateSearchText(row) ==
  trim(collapseSpaces(replaceSpecial(toLowerCase(join(
    << OrEmpty(row.filename), OrEmpty(row.customName), OrEmpty(row.transcript),
       OrEmpty(row.notes), OrEmpty(row.subject), OrEmpty(row.category) >>
    \o tagTexts(row.tags))))))

\* String.prototype.includes
includes(s, q) ==
  \E i \in 0..(Len(s) - Len(q)) : SubSeq(s, i + 1, i + Len(q)) = q

\* The test of the free-text filter: the stored searchText, or the one
\* generated now when none is stored, includes the query, lowered and trimmed.
matchesQuery(row, query) ==
  LET normalizedQuery == trim(toLowerCase(query))
      searchText == IF Falsy(row.searchText) THEN generateSearchText(row)
                    ELSE row.searchText
  IN includes(searchText, normalizedQuery)

searchRecordings(table, query) ==
  IF trim(query) = <<>> THEN getAllRecordings(table)
  ELSE SelectSeq(toArray(table), LAMBDA rec : matchesQuery(rec.row, query))

\* The mistake of asking for every listed tag.
everyTag(row, tags) ==
  /\ row.tags # Undefined
  /\ \A j \in 1..Len(tags) : \E i \in 1..Len(row.tags) : row.tags[i] = tags[j]

\* rec.tags?.some((tag) => filters.tags.includes(tag))
someTag(row, tags) ==
  /\ row.tags # Undefined
  /\ \E i \in 1..Len(row.tags) : \E j \in 1..Len(tags) : row.tags[i] = tags[j]

\* recordings.sort((a, b) => date of b - date of a): a stable sort.
RECURSIVE sortByDateDescending(_)
sortByDateDescending(seq) ==
  IF seq = <<>> THEN <<>>
  ELSE LET x == seq[Len(seq)]
           front == sortByDateDescending(SubSeq(seq, 1, Len(seq) - 1))
           n == Cardinality({i \in 1..Len(front) : front[i].row.date >= x.row.date})
       IN SubSeq(front, 1, n) \o << x >> \o SubSeq(front, n + 1, Len(front))

\* A FilterOptions object with nothing supplied.
NoFilters ==
  [searchQuery |-> Undefined, tags |-> Undefined, category |-> Undefined,
   status |-> Absent, isStudied |-> Absent, priority |-> Absent,
   dateFrom |-> NoDate, dateTo |-> NoDate]

filterRecordings(table, filters) ==
  LET all == toArray(table)
      bySearch ==
        IF filters.searchQuery # Undefined /\ trim(filters.searchQuery) # <<>>
        THEN SelectSeq(all, LAMBDA rec : matchesQuery(rec.row, filters.searchQuery))
        ELSE all
      byTags ==
        IF filters.tags # Undefined /\ Len(filters.tags) > 0
        THEN SelectSeq(bySearch, LAMBDA rec : someTag(rec.row, filters.tags))
        ELSE bySearch
      byCategory ==
        IF ~Falsy(filters.category)
        THEN SelectSeq(byTags, LAMBDA rec : rec.row.category = filters.category)
        ELSE byTags
      byStatus ==
        IF filters.status # Absent
        THEN SelectSeq(byCategory, LAMBDA rec : rec.row.status = filters.status)
        ELSE byCategory
      byStudied ==
        IF filters.isStudied # Absent
        THEN SelectSeq(byStatus, LAMBDA rec : rec.row.isStudied = filters.isStudied)
        ELSE byStatus
      byPriority ==
        IF filters.priority # Absent
        THEN SelectSeq(byStudied, LAMBDA rec : rec.row.priority = filters.priority)
        ELSE byStudied
      byDate ==
        IF filters.dateFrom # NoDate \/ filters.dateTo # NoDate
        THEN SelectSeq(byPriority, LAMBDA rec :
               /\ (filters.dateFrom = NoDate \/ rec.row.date >= filters.dateFrom)
               /\ (filters.dateTo = NoDate \/ rec.row.date <= filters.dateTo))
        ELSE byPriority
  IN sortByDateDescending(byDate)

\* updateSearchText: nothing for a key that does not exist.
updateSearchText(table, id) ==
  IF id \in DOMAIN table
  THEN updateRecording(table, id, [searchText |-> generateSearchText(table[id])])
  ELSE table

\* The mistake of writing each row anew with put: the fields the upgrade
\* does not name are lost.
upgradeReplacing(table) ==
  [k \in DOMAIN table |->
     [RecordedRow(table[k].filename, table[k].date, table[k].duration,
                  table[k].audioBytes) EXCEPT
        !.tags = <<>>, !.isStudied = "false", !.lastModified = table[k].date,
        !.searchText = generateSearchText(table[k])]]

\* The upgrade function of version 2: every row read by toArray is updated
\* with the defaults of the new fields and its search text.
RECURSIVE upgradeRows(_, _)
upgradeRows(table, rows) ==
  IF rows = <<>> THEN table
  ELSE LET recording == Head(rows)
       IN upgradeRows(
            updateRecording(table, recording.id,
              [tags |-> <<>>, isStudied |-> "false",
               lastModified |-> recording.row.date,
               searchText |-> generateSearchText(recording.row)]),
            Tail(rows))

upgrade(table) == upgradeRows(table, toArray(table))

\* --------------------------------------------------------- RecordingControls

\* Start is clicked at most this often.
MaxRecorders == 2

\* The controls are watched for this many milliseconds.
MaxControlsClock == 1000

\* The workflow is at rest: one record, no key, no call.
WorkflowIdle ==
  /\ store = [r \in RecordIds |-> NewRecording]
  /\ prop = Rendered(store)
  /\ isProcessing = [r \in RecordIds |-> FALSE]
  /\ currentPage = "home"
  /\ openaiKey = NullKey
  /\ anthropicKey = NullKey
  /\ inv = <<>>
  /\ storeFaults = 0

ControlsInit == WorkflowIdle /\ RecorderInit /\ TableInit /\ VisualizerInit

\* handleStartRecording up to its await: a new AudioRecorder is constructed,
\* put in audioRecorderRef and initialized. The Start button is rendered
\* while isRecording is false.
ClickStart ==
  /\ controlsMounted
  /\ ~isRecording
  /\ Len(recorders) < MaxRecorders
  /\ recorders' = Append(recorders,
                         [NewAudioRecorder EXCEPT !.initCalled = TRUE,
                                                  !.pending = "initialize"])
  /\ ref' = Len(recorders) + 1
  /\ lastCall' = [op |-> "initialize", rec |-> Len(recorders) + 1,
                  outcome |-> "pending", msg |-> "", duration |-> 0]
  /\ UNCHANGED << workflowVars, tableVars, visualizerVars, streams, clock, isRecording, isPaused,
                  controlsMounted >>

\* initialize() settles and handleStartRecording goes on with the recorder it
\* constructed: start(), setIsRecording(true), setIsPaused(false); or its
\* catch block shows the error.
StartContinues(i) ==
  /\ recorders[i].pending = "initialize"
  /\ \E o \in InitializeOutcomes :
       LET res == initialize(recorders[i], streams, o)
           started == start(res.r, clock)
       IN /\ streams' = res.ss
          /\ IF res.outcome = "returned"
             THEN /\ recorders' = [recorders EXCEPT ![i] = started.r]
                  /\ lastCall' = [op |-> "start", rec |-> i,
                                  outcome |-> started.outcome, msg |-> started.msg,
                                  duration |-> 0]
                  /\ isRecording' = (started.outcome = "returned" \/ isRecording)
                  /\ isPaused' = (started.outcome # "returned" /\ isPaused)
             ELSE /\ recorders' = [recorders EXCEPT ![i] = res.r]
                  /\ lastCall' = [op |-> "initialize", rec |-> i,
                                  outcome |-> res.outcome, msg |-> res.msg,
                                  duration |-> 0]
                  /\ UNCHANGED << isRecording, isPaused >>
  /\ UNCHANGED << workflowVars, tableVars, visualizerVars, clock, ref, controlsMounted >>

\* handlePauseRecording: nothing without a recorder in the ref; a throw of
\* pause() is caught and shown.
ClickPause ==
  /\ controlsMounted /\ isRecording /\ ~isPaused
  /\ IF ref = 0
     THEN UNCHANGED << recorders, lastCall, isPaused >>
     ELSE LET res == pause(recorders[ref], clock)
          IN /\ Settle("pause", ref, res)
             /\ isPaused' = (res.outcome = "returned")
  /\ UNCHANGED << workflowVars, tableVars, visualizerVars, streams, clock, ref, isRecording,
                  controlsMounted >>

\* handleResumeRecording
ClickResume ==
  /\ controlsMounted /\ isRecording /\ isPaused
  /\ IF ref = 0
     THEN UNCHANGED << recorders, lastCall, isPaused >>
     ELSE LET res == resume(recorders[ref], clock)
          IN /\ Settle("resume", ref, res)
             /\ isPaused' = (res.outcome # "returned")
  /\ UNCHANGED << workflowVars, tableVars, visualizerVars, streams, clock, ref, isRecording,
                  controlsMounted >>

\* handleStopRecording up to its await of stop(); a rejection is caught and
\* shown.
ClickStop ==
  /\ controlsMounted /\ isRecording
  /\ IF ref = 0
     THEN UNCHANGED << recorders, lastCall >>
     ELSE /\ recorders[ref].pending = "none"
          /\ \E choice \in StopInactiveChoices :
               Settle("stop", ref, stop(recorders[ref], choice))
  /\ UNCHANGED << workflowVars, tableVars, visualizerVars, streams, clock, ref, isRecording,
                  isPaused, controlsMounted >>

\* The stop event: stop() resolves and handleStopRecording goes on to the
\* size check; a blob over 25 MB is refused with an error and nothing else,
\* any other is handed to saveRecording.
StopContinues(i) ==
  /\ recorders[i].onstop = "queued"
  /\ LET res == onstop(recorders[i], streams, clock)
     IN /\ streams' = res.ss
        /\ lastCall' = [op |-> "stop", rec |-> i, outcome |-> res.outcome,
                        msg |-> "", duration |-> res.duration]
        /\ \E tooLarge \in BOOLEAN :
             recorders' =
               [recorders EXCEPT ![i] =
                  IF res.outcome = "returned" /\ recorders[i].pending = "stop"
                     /\ ~tooLarge
                  THEN [res.r EXCEPT !.pending = "save", !.duration = res.duration]
                  ELSE res.r]
  /\ UNCHANGED << workflowVars, tableVars, visualizerVars, clock, ref, isRecording, isPaused,
                  controlsMounted >>

\* saveRecording settles: the controls are reset and the ref cleared, or the
\* catch block shows the error.
SaveSettles(i) ==
  /\ recorders[i].pending = "save"
  /\ recorders' = [recorders EXCEPT ![i].pending = "none"]
  /\ \E saved \in BOOLEAN :
       IF saved
       THEN LET res == saveRecording(recordings, autoIncrement,
                         RecordedRow(<<"r">>, clock, recorders[i].duration,
                                     MaxSavedBytes))
            IN /\ recordings' = res.table
               /\ autoIncrement' = res.auto
               /\ returned' = [op |-> "save", id |-> res.id]
               /\ isRecording' = FALSE
               /\ isPaused' = FALSE
               /\ ref' = 0
       ELSE UNCHANGED << recordings, autoIncrement, returned, isRecording,
                         isPaused, ref >>
  /\ UNCHANGED << workflowVars, visualizerVars, version, streams, clock, lastCall,
                  controlsMounted >>

\* The home page is left: the unmount effect disposes of the recorder in the
\* ref. isRecording and isPaused live in AppContext and stay.
UnmountControls ==
  /\ controlsMounted
  /\ controlsMounted' = FALSE
  /\ IF ref = 0
     THEN UNCHANGED << recorders, streams >>
     ELSE /\ recorders' = [recorders EXCEPT ![ref] = dispose(@)]
          /\ streams' = StopTracks(streams, recorders[ref].stream)
  /\ UNCHANGED << workflowVars, tableVars, visualizerVars, clock, lastCall, ref, isRecording,
                  isPaused >>

\* The home page is entered again: a new RecordingControls, its ref null.
MountControls ==
  /\ ~controlsMounted
  /\ controlsMounted' = TRUE
  /\ ref' = 0
  /\ UNCHANGED << workflowVars, tableVars, visualizerVars, recorders, streams, clock, lastCall,
                  isRecording, isPaused >>

\* Time passes while the controls are watched.
ControlsTick == clock < MaxControlsClock /\ Tick

ControlsNext ==
  \/ ClickStart
  \/ \E i \in DOMAIN recorders : StartContinues(i)
  \/ ClickPause
  \/ ClickResume
  \/ ClickStop
  \/ \E i \in DOMAIN recorders : StopContinues(i)
  \/ \E i \in DOMAIN recorders : SaveSettles(i)
  \/ UnmountControls
  \/ MountControls
  \/ \E i \in DOMAIN recorders : DataAvailable(i)
  \/ ControlsTick

ControlsSpec == ControlsInit /\ [][ControlsNext]_vars

\* ------------------------------------------------- the storage service, used

\* The table is given at most this many rows.
MaxRows == 2

StoreIds == 1..MaxRows

\* A saved row with the organisation fields given.
Row(filename, date, tags, category, isStudied, priority) ==
  [RecordedRow(filename, date, 0, 1) EXCEPT
     !.tags = tags, !.category = category, !.isStudied = isStudied,
     !.priority = priority]

RowInputs ==
  { Row(<<"A">>, 2, Undefined, Undefined, Absent, Absent),
    Row(<<"a", ",", "b">>, 1, <<"a">>, <<"b">>, "false", "low"),
    Row(<<"b">>, 2, <<"a", "b">>, Undefined, "true", Absent) }

UpdateInputs ==
  { [customName |-> <<"b">>],
    [status |-> "transcribing", errorMessage |-> NoError] }

QueryInputs ==
  { <<>>, <<SP>>, <<"a">>, <<"A">>, <<"a", ",">>, <<"a", ",", "b">>,
    <<"a", SP, "b">> }

\* The date ranges asked for: none, from a date on, up to a date.
RangeInputs == { <<NoDate, NoDate>>, <<2, NoDate>>, <<NoDate, 1>> }

FilterInputs ==
  { [searchQuery |-> q, tags |-> t, category |-> c, status |-> st,
     isStudied |-> sd, priority |-> pr, dateFrom |-> range[1],
     dateTo |-> range[2]] :
      q \in {Undefined, <<SP>>, <<"A">>},
      t \in {Undefined, <<>>, <<"a", "b">>},
      c \in {Undefined, <<>>, <<"b">>},
      st \in {Absent, "recorded"},
      sd \in {Absent, "false"},
      pr \in {Absent, "low"},
      range \in RangeInputs }

StoreInit == WorkflowIdle /\ RecorderInit /\ TableInit /\ VisualizerInit

StoreFrame ==
  UNCHANGED << workflowVars, recorderVars, visualizerVars, version >>

\* The calls are awaited: the next one is made when the result of the last
\* has been taken.
Idle == returned = NoReturn

ResultTaken ==
  /\ returned # NoReturn
  /\ returned' = NoReturn
  /\ UNCHANGED << recordings, autoIncrement >>
  /\ StoreFrame

\* saveRecording(row): the row is added under a new key, or the database
\* refuses and the error is rethrown.
Save(row) ==
  /\ Idle
  /\ autoIncrement < MaxRows
  /\ \E refused \in BOOLEAN :
       IF refused
       THEN /\ returned' = [op |-> "save", outcome |-> "threw", id |-> 0, row |-> row]
            /\ UNCHANGED << recordings, autoIncrement >>
       ELSE LET res == saveRecording(recordings, autoIncrement, row)
            IN /\ recordings' = res.table
               /\ autoIncrement' = res.auto
               /\ returned' = [op |-> "save", outcome |-> "returned", id |-> res.id,
                               row |-> row]
  /\ StoreFrame

\* updateRecording(id, updates)
Update(id, updates) ==
  /\ Idle
  /\ \E refused \in BOOLEAN :
       IF refused
       THEN /\ returned' = [op |-> "update", outcome |-> "threw", id |-> id,
                            updates |-> updates, count |-> 0, before |-> recordings]
            /\ UNCHANGED recordings
       ELSE /\ recordings' = updateRecording(recordings, id, updates)
            /\ returned' = [op |-> "update", outcome |-> "returned", id |-> id,
                            updates |-> updates,
                            count |-> updatedCount(recordings, id),
                            before |-> recordings]
  /\ UNCHANGED autoIncrement
  /\ StoreFrame

\* deleteRecording(id)
Delete(id) ==
  /\ Idle
  /\ recordings' = deleteRecording(recordings, id)
  /\ returned' = [op |-> "delete", id |-> id]
  /\ UNCHANGED autoIncrement
  /\ StoreFrame

\* updateSearchText(id)
UpdateSearchText(id) ==
  /\ Idle
  /\ recordings' = updateSearchText(recordings, id)
  /\ returned' = [op |-> "updateSearchText", id |-> id]
  /\ UNCHANGED autoIncrement
  /\ StoreFrame

\* getRecording(id)
Get(id) ==
  /\ Idle
  /\ returned' = [op |-> "get", id |-> id, result |-> getRecording(recordings, id)]
  /\ UNCHANGED << recordings, autoIncrement >>
  /\ StoreFrame

\* getAllRecordings()
GetAll ==
  /\ Idle
  /\ returned' = [op |-> "getAll", rows |-> getAllRecordings(recordings)]
  /\ UNCHANGED << recordings, autoIncrement >>
  /\ StoreFrame

\* searchRecordings(query)
Search(query) ==
  /\ Idle
  /\ returned' = [op |-> "search", query |-> query,
                  rows |-> searchRecordings(recordings, query)]
  /\ UNCHANGED << recordings, autoIncrement >>
  /\ StoreFrame

\* filterRecordings(filters)
Filter(filters) ==
  /\ Idle
  /\ returned' = [op |-> "filter", filters |-> filters,
                  rows |-> filterRecordings(recordings, filters)]
  /\ UNCHANGED << recordings, autoIncrement >>
  /\ StoreFrame

StoreNext ==
  \/ \E row \in RowInputs : Save(row)
  \/ \E id \in StoreIds : \E updates \in UpdateInputs : Update(id, updates)
  \/ \E id \in StoreIds : Delete(id)
  \/ \E id \in StoreIds : UpdateSearchText(id)
  \/ \E id \in StoreIds : Get(id)
  \/ GetAll
  \/ \E query \in QueryInputs : Search(query)
  \/ \E filters \in FilterInputs : Filter(filters)
  \/ ResultTaken

StoreSpec == StoreInit /\ [][StoreNext]_vars

\* ------------------------------------------------ the upgrade to version 2

\* A row as version 1 of the application stored it.
V1Row(filename, date, customName, transcript, notes, status) ==
  [RecordedRow(filename, date, 0, 1) EXCEPT
     !.customName = customName, !.transcript = transcript, !.notes = notes,
     !.status = status]

V1RowInputs ==
  { V1Row(<<"A">>, 2, Undefined, Undefined, Undefined, "recorded"),
    V1Row(<<"a", ",", "b">>, 1, <<"b">>, <<"a">>, Undefined, "transcribed"),
    V1Row(<<"b">>, 2, Undefined, Undefined, Undefined, "recorded") }

\* The tables a version 1 database may hold: up to MaxRows rows saved, the
\* first possibly deleted again.
V1Tables ==
  LET one(r) == saveRecording(<<>>, 0, r)
      two(r1, r2) == saveRecording(one(r1).table, 1, r2)
  IN {[table |-> <<>>, auto |-> 0]}
     \cup {[table |-> one(r).table, auto |-> 1] : r \in V1RowInputs}
     \cup {[table |-> two(r1, r2).table, auto |-> 2] :
             r1 \in V1RowInputs, r2 \in V1RowInputs}
     \cup {[table |-> deleteRecording(two(r1, r2).table, 1), auto |-> 2] :
             r1 \in V1RowInputs, r2 \in V1RowInputs}

\* The updates handleGenerateNotes makes of a transcript and of notes.
WorkflowUpdateInputs ==
  { [transcript |-> <<"a">>, status |-> "transcribed"],
    [notes |-> <<"A">>, status |-> "complete"] }

\* The application of version 2 is started on a database of version 1.
MigrationInit ==
  /\ WorkflowIdle
  /\ RecorderInit
  /\ VisualizerInit
  /\ \E db \in V1Tables : recordings = db.table /\ autoIncrement = db.auto
  /\ returned = NoReturn
  /\ version = 1

\* The database is opened: Dexie runs the upgrade in one transaction.
OpenDatabase ==
  /\ version = 1
  /\ version' = 2
  /\ recordings' = upgrade(recordings)
  /\ returned' = [op |-> "upgrade", before |-> recordings]
  /\ UNCHANGED autoIncrement
  /\ UNCHANGED << workflowVars, recorderVars, visualizerVars >>

\* After the upgrade the application saves, renames, runs the workflow and
\* searches.
MigrationNext ==
  \/ OpenDatabase
  \/ version = 2 /\ \E row \in RowInputs : Save(row)
  \/ version = 2 /\ \E id \in StoreIds :
                      \E updates \in UpdateInputs \cup WorkflowUpdateInputs :
                        Update(id, updates)
  \/ version = 2 /\ \E query \in QueryInputs : Search(query)
  \/ version = 2 /\ ResultTaken

MigrationSpec == MigrationInit /\ [][MigrationNext]_vars

\* ------------------------------------------------- RecordingsList: the items

\* The table hands out at most this many ids.
MaxItems == 2

ItemIds == 1 .. MaxItems

\* The names typed into the rename field.
CustomNameInputs == { <<"b">> }

\* A record as handleStopRecording saves it, with the fields the workflow
\* does not name.
ItemRecording ==
  [status |-> "recorded", transcript |-> Undefined, notes |-> Undefined,
   errorMessage |-> NoError, audioBytes |-> MaxSavedBytes,
   filename |-> <<"A">>, customName |-> Undefined, date |-> 1, duration |-> 0,
   tags |-> Undefined]

\* The records 1 .. n are listed; both API keys are configured.
Listed(n) ==
  /\ store = [r \in 1 .. n |-> ItemRecording]
  /\ prop = Rendered(store)
  /\ isProcessing = [r \in ItemIds |-> FALSE]
  /\ currentPage = "home"
  /\ openaiKey = <<"sk-", "ant-", "a">>
  /\ anthropicKey = <<"sk-", "ant-", "a">>
  /\ inv = <<>>
  /\ storeFaults = 0
  /\ RecorderInit
  /\ recordings = <<>>
  /\ autoIncrement = n
  /\ returned = NoReturn
  /\ version = 2
  /\ VisualizerInit

ItemsFrame ==
  UNCHANGED << prop, isProcessing, currentPage, openaiKey, anthropicKey, inv,
               recorderVars, recordings, returned, version, visualizerVars >>

\* handleSaveName of the item of record r: updateRecording(id, {customName});
\* a rejection is caught and logged.
SaveName(r, customName) ==
  /\ currentPage = "home"
  /\ r \in DOMAIN prop
  /\ \E fault \in FaultChoices :
       /\ store' = IF fault THEN store
                   ELSE updateRecording(store, r, [customName |-> customName])
       /\ storeFaults' = IF fault THEN storeFaults + 1 ELSE storeFaults
  /\ UNCHANGED autoIncrement
  /\ ItemsFrame

\* handleDelete of the item of record r: deleteRecording(id).
DeleteItem(r) ==
  /\ currentPage = "home"
  /\ r \in DOMAIN prop
  /\ store' = deleteRecording(store, r)
  /\ UNCHANGED << storeFaults, autoIncrement >>
  /\ ItemsFrame

\* handleStopRecording saves a new recording: Table.add hands out the next id.
SaveItem ==
  /\ autoIncrement < MaxItems
  /\ LET saved == saveRecording(store, autoIncrement, ItemRecording)
     IN /\ store' = saved.table
        /\ autoIncrement' = saved.auto
  /\ UNCHANGED storeFaults
  /\ ItemsFrame

\* The steps of handleGenerateNotes on the items shown: those of the rows the
\* live query delivered last. The item of a deleted row is gone with the next
\* delivery.
ItemsWorkflow ==
  \/ \E r \in DOMAIN prop \cap DOMAIN store : ClickGenerateNotes(r)
  \/ \E i \in DOMAIN inv : CallWhisper(i)
  \/ \E i \in DOMAIN inv : WhisperResponds(i)
  \/ \E i \in DOMAIN inv : AfterTranscribed(i)
  \/ \E i \in DOMAIN inv : CallClaude(i)
  \/ \E i \in DOMAIN inv : ClaudeResponds(i)
  \/ \E i \in DOMAIN inv : CatchUpdateFailure(i)
  \/ \E i \in DOMAIN inv : Finally(i)
  \/ LiveQueryRefresh

\* Two records are listed: their workflows run and they are renamed.
ItemsInit == Listed(MaxItems)

ItemsNext ==
  \/ ItemsWorkflow
  \/ \E r \in ItemIds, customName \in CustomNameInputs : SaveName(r, customName)

ItemsSpec == ItemsInit /\ [][ItemsNext]_vars

\* One record is listed: its workflow runs, it is deleted, and a new
\* recording is saved.
DeletionInit == Listed(1)

DeletionNext ==
  \/ ItemsWorkflow
  \/ \E r \in ItemIds : DeleteItem(r)
  \/ SaveItem

DeletionSpec == DeletionInit /\ [][DeletionNext]_vars

\* ------------------------------------------------------------ AudioVisualizer

\* The component constructs at most this many visualizer instances.
MaxVisualizers == 3

\* Each instance is watched for this many frequency callbacks.
MaxFrames == 2

\* The streams the audioStream prop may hold; 0 is null.
StreamProps == 0 .. 2

\* An AudioVisualizer service instance as constructed. audioContext,
\* analyserNode, dataArray and animationFrameId say whether the field holds a
\* value (FALSE is null); context is the state of the AudioContext the browser
\* created for it, scheduled says that the browser has a frame request of its
\* animate function queued, callbacks counts the calls of the callback, and
\* cleaned records that cleanup() was called.
NewVisualizer ==
  [audioContext |-> FALSE, context |-> "none", analyserNode |-> FALSE,
   dataArray |-> FALSE, animationFrameId |-> FALSE, scheduled |-> FALSE,
   isActive |-> FALSE, callbacks |-> 0, cleaned |-> FALSE]

\* How initialize may end: it returns, new AudioContext() throws, or
\* createMediaStreamSource throws after the context, the analyser and the
\* data array were assigned.
VisualizerOutcomes == {"ok", "noContext", "noSource"}

\* AudioVisualizer.initialize
visualizerInitialize(v, outcome) ==
  IF outcome = "noContext" THEN [v |-> v, threw |-> TRUE]
  ELSE [v |-> [v EXCEPT !.audioContext = TRUE, !.context = "running",
                        !.analyserNode = TRUE, !.dataArray = TRUE],
        threw |-> outcome = "noSource"]

\* getFrequencyData returns the data array, or null before initialize and
\* after cleanup.
getFrequencyData(v) == v.analyserNode /\ v.dataArray

\* The animation loop's function: it calls the callback when there is data
\* and requests the next frame.
animate(v) ==
  IF ~v.isActive THEN v
  ELSE [v EXCEPT !.callbacks = IF getFrequencyData(v) THEN @ + 1 ELSE @,
                 !.animationFrameId = TRUE, !.scheduled = TRUE]

startVisualization(v) == animate([v EXCEPT !.isActive = TRUE])

\* cancelAnimationFrame takes the queued request away.
stopVisualization(v) ==
  [v EXCEPT !.isActive = FALSE, !.animationFrameId = FALSE,
            !.scheduled = IF v.animationFrameId THEN FALSE ELSE @]

\* cleanup() that stops the loop and keeps the context and the references.
visualizerCleanupStopping(v) == [stopVisualization(v) EXCEPT !.cleaned = TRUE]

\* AudioVisualizer.cleanup
visualizerCleanup(v) ==
  LET stopped == stopVisualization(v)
  IN [stopped EXCEPT
        !.context = IF stopped.audioContext THEN "closed" ELSE @,
        !.audioContext = FALSE, !.analyserNode = FALSE, !.dataArray = FALSE,
        !.cleaned = TRUE]

\* "if (visualizerRef.current) { cleanup(); visualizerRef.current = null }":
\* the else branch of the effect and the function the effect returns.
CleanRef(vs, current) ==
  [visualizers |-> IF current = 0 THEN vs
                   ELSE [vs EXCEPT ![current] = visualizerCleanup(@)],
   ref |-> 0]

\* The body of the effect, run with the props of the render.
EffectBody(vs, current, recording, paused, stream, outcome) ==
  IF recording /\ ~paused /\ stream # 0
  THEN LET made == visualizerInitialize(NewVisualizer, outcome)
           visualizer == IF made.threw THEN made.v
                         ELSE startVisualization(made.v)
       IN [visualizers |-> Append(vs, visualizer), ref |-> Len(vs) + 1]
  ELSE CleanRef(vs, current)

VisualizerFrame ==
  UNCHANGED << workflowVars, tableVars, recorders, streams, clock, lastCall,
               ref, controlsMounted >>

\* RecordingControls renders the component once isRecording is true: the
\* effect runs for the first time.
VisualizerMount(paused, stream, outcome) ==
  /\ ~visualizerMounted
  /\ Len(visualizers) < MaxVisualizers
  /\ LET after == EffectBody(visualizers, visualizerRef, TRUE, paused, stream,
                             outcome)
     IN /\ visualizers' = after.visualizers
        /\ visualizerRef' = after.ref
  /\ isRecording' = TRUE
  /\ isPaused' = paused
  /\ audioStream' = stream
  /\ visualizerMounted' = TRUE
  /\ VisualizerFrame

\* A render with a changed isPaused or audioStream: the function the last
\* effect returned runs, then the effect.
VisualizerRender(paused, stream, outcome) ==
  /\ visualizerMounted
  /\ << paused, stream >> # << isPaused, audioStream >>
  /\ Len(visualizers) < MaxVisualizers
  /\ LET cleaned == CleanRef(visualizers, visualizerRef)
         after == EffectBody(cleaned.visualizers, cleaned.ref, TRUE, paused,
                             stream, outcome)
     IN /\ visualizers' = after.visualizers
        /\ visualizerRef' = after.ref
  /\ isPaused' = paused
  /\ audioStream' = stream
  /\ UNCHANGED << isRecording, visualizerMounted >>
  /\ VisualizerFrame

\* isRecording becomes false and RecordingControls renders the component no
\* more: the function the last effect returned runs.
VisualizerUnmount ==
  /\ visualizerMounted
  /\ LET cleaned == CleanRef(visualizers, visualizerRef)
     IN /\ visualizers' = cleaned.visualizers
        /\ visualizerRef' = cleaned.ref
  /\ isRecording' = FALSE
  /\ isPaused' = FALSE
  /\ audioStream' = 0
  /\ visualizerMounted' = FALSE
  /\ VisualizerFrame

\* The browser runs a queued frame request of instance i.
AnimationFrame(i) ==
  /\ visualizers[i].scheduled
  /\ visualizers[i].callbacks < MaxFrames
  /\ visualizers' =
       [visualizers EXCEPT ![i] = animate([@ EXCEPT !.scheduled = FALSE])]
  /\ UNCHANGED << visualizerRef, audioStream, visualizerMounted, isRecording,
                  isPaused >>
  /\ VisualizerFrame

VisualizerSpecInit == WorkflowIdle /\ RecorderInit /\ TableInit /\ VisualizerInit

VisualizerNext ==
  \/ \E paused \in BOOLEAN, stream \in StreamProps,
        outcome \in VisualizerOutcomes :
       VisualizerMount(paused, stream, outcome)
  \/ \E paused \in BOOLEAN, stream \in StreamProps,
        outcome \in VisualizerOutcomes :
       VisualizerRender(paused, stream, outcome)
  \/ VisualizerUnmount
  \/ \E i \in DOMAIN visualizers : AnimationFrame(i)

VisualizerSpec == VisualizerSpecInit /\ [][VisualizerNext]_vars

\* --------------------------------------------------------------- properties

Outstanding(i) == inv[i].pc # "done"

\* The pc of call i before the step (a call made by this step has none yet).
PcBefore(i) == IF i \in DOMAIN inv THEN inv[i].pc ELSE "start"

\* The chain recorded, transcribing, transcribed, generating_notes, complete.
Chain == <<"recorded", "transcribing", "transcribed", "generating_notes", "complete">>

OnChain(status) == \E k \in DOMAIN Chain : Chain[k] = status

Rank(status) == CHOOSE k \in DOMAIN Chain : Chain[k] = status

\* C1: every change of a record's persisted status follows the chain recorded,
\* transcribing, transcribed, generating_notes, complete, enters error from an
\* in-progress status or re-enters the chain from error. This is the claim's
\* closing clause, which its list of edges implies: between two statuses of
\* the chain the status never moves backward.
C1_NeverBackward ==
  [][\A r \in RecordIds :
       (OnChain(store[r].status) /\ OnChain(store'[r].status))
         => Rank(store'[r].status) >= Rank(store[r].status)]_vars

\* C2: in every reachable state a record has notes only if its status is
\* complete.
C2_NotesOnlyWhenComplete ==
  \A r \in RecordIds : ~Falsy(store[r].notes) => store[r].status = "complete"

\* C3: in every reachable state a record has a transcript only if its status
\* is transcribed, generating_notes, complete or error; a record whose status
\* is recorded or transcribing has none.
C3_TranscriptOnlyAfterTranscribed ==
  \A r \in RecordIds :
    ~Falsy(store[r].transcript)
      => store[r].status \in {"transcribed", "generating_notes", "complete", "error"}

\* C4: there are never two outstanding calls of handleGenerateNotes for the
\* same record.
C4_SingleFlight ==
  \A i, j \in DOMAIN inv :
    (i # j /\ inv[i].rec = inv[j].rec) => ~(Outstanding(i) /\ Outstanding(j))

\* C5: whenever the catch block of a call has run, the record has status error
\* and errorMessage equal to the failure's message, and no error has left
\* handleGenerateNotes.
C5_EveryFailureRecorded ==
  [][\A i \in DOMAIN inv' :
       (PcBefore(i) # "error" /\ inv'[i].pc = "error")
         => /\ ~inv'[i].rejected
            /\ store'[inv'[i].rec].status = "error"
            /\ store'[inv'[i].rec].errorMessage = inv'[i].err]_vars

\* C6: a call made on a record that is recorded and has no transcript, with
\* both keys configured, to which Whisper answers T and Claude answers N,
\* leaves the record complete with transcript trim(T) and notes trim(N),
\* having written transcribing, transcribed, generating_notes, complete in
\* that order.
C6_HappyPath ==
  [][\A i \in DOMAIN inv :
       ( /\ inv[i].pc = "claude"
         /\ inv'[i].pc = "complete"
         /\ inv[i].startStatus = "recorded"
         /\ ~inv[i].startHadTranscript
         /\ ~MissingKey(inv[i].openaiKey)
         /\ ~MissingKey(inv[i].anthropicKey) )
         => /\ store'[inv[i].rec].status = "complete"
            /\ store'[inv[i].rec].transcript = trim(inv'[i].whisperText)
            /\ store'[inv[i].rec].notes = trim(inv'[i].claudeText)
            /\ inv'[i].wrote =
                 <<"transcribing", "transcribed", "generating_notes", "complete">>]_vars

\* C7: when Whisper answers a call with 401, the record ends in status error
\* with the invalid-OpenAI-key message, its transcript is unset, and the call
\* sends no notes request.
C7_InvalidOpenAIKey ==
  [][\A i \in DOMAIN inv :
       (inv[i].pc = "whisper" /\ inv'[i].err = MsgInvalidOpenAIKey)
         => /\ store'[inv[i].rec].status = "error"
            /\ store'[inv[i].rec].errorMessage = MsgInvalidOpenAIKey
            /\ Falsy(store'[inv[i].rec].transcript)
            /\ ~inv'[i].calledClaude]_vars

\* C8: a call made when the record already has a non-empty transcript sends no
\* transcription request, goes straight to generating_notes (it writes neither
\* transcribing nor transcribed) and so leaves the stored transcript as it is.
C8_TranscriptionSkipped ==
  \A i \in DOMAIN inv :
    (Outstanding(i) /\ inv[i].startHadTranscript)
      => /\ ~inv[i].calledWhisper
         /\ \A k \in DOMAIN inv[i].wrote :
              inv[i].wrote[k] \notin {"transcribing", "transcribed"}

\* C9: a call made on a record whose status is complete changes nothing of the
\* record and sends no request (or no such call is made at all).
C9_CompleteIsFinal ==
  \A i \in DOMAIN inv :
    (Outstanding(i) /\ inv[i].startStatus = "complete")
      => inv[i].wrote = <<>> /\ ~inv[i].calledWhisper /\ ~inv[i].calledClaude

\* C10, as claimed: a call that fails with an 'API key not configured' error
\* has attempted no network call.
C10_KeyCheckedBeforeAnyRequest ==
  \A i \in DOMAIN inv :
    inv[i].err \in {MsgOpenAIKeyMissing, MsgAnthropicKeyMissing}
      => ~inv[i].calledWhisper /\ ~inv[i].calledClaude

\* A key as the handler finds it when none is configured: null from
\* localStorage, or the empty string.
NotConfigured(key) == key \in {NullKey, <<>>}

\* C10, amended: each key is tested before the request to its own provider. A
\* request goes to a provider only from a call whose key for that provider is
\* configured; a call that needs the OpenAI key and has none fails with the
\* OpenAI 'API key not configured' error before any request at all; a call
\* without the Anthropic key never gets past the test that opens note
\* generation, and its 'API key not configured' error comes before any notes
\* request (the transcription request of the same call may have been sent).
C10_KeyCheckedBeforeItsRequest ==
  \A i \in DOMAIN inv :
    /\ inv[i].calledWhisper => ~NotConfigured(inv[i].openaiKey)
    /\ inv[i].calledClaude => ~NotConfigured(inv[i].anthropicKey)
    /\ inv[i].err = MsgOpenAIKeyMissing
         => ~inv[i].calledWhisper /\ ~inv[i].calledClaude
    /\ inv[i].err = MsgAnthropicKeyMissing => ~inv[i].calledClaude
    /\ ( /\ Outstanding(i)
         /\ Falsy(inv[i].recording.transcript)
         /\ NotConfigured(inv[i].openaiKey) )
         => inv[i].err = MsgOpenAIKeyMissing
    /\ NotConfigured(inv[i].anthropicKey)
         => inv[i].pc \notin {"generating_notes", "claude", "complete"}

\* C10, its case: the Anthropic key is found missing after the transcription
\* request of the same call has been sent.
C10_Witness ==
  \E i \in DOMAIN inv :
    inv[i].err = MsgAnthropicKeyMissing /\ inv[i].calledWhisper

\* C11: a call made on a record whose status is error starts from the
\* transcript the store holds: with a stored transcript it sends no
\* transcription request and never writes transcribing; without one its first
\* write is transcribing (or error again).
C11_ErrorRecoveryFollowsStore ==
  \A i \in DOMAIN inv :
    (Outstanding(i) /\ inv[i].startStatus = "error")
      => IF inv[i].startHadTranscript
         THEN /\ ~inv[i].calledWhisper
              /\ \A k \in DOMAIN inv[i].wrote : inv[i].wrote[k] # "transcribing"
         ELSE inv[i].wrote = <<>> \/ Head(inv[i].wrote) \in {"transcribing", "error"}

\* C12: when stop() resolves on a recorder that was started once and then
\* only paused and resumed in turn (the stop may come while it is paused), the
\* duration it returns is the time spent in state recording, rounded to
\* seconds.
C12_DurationExcludesPauses ==
  [][\A i \in DOMAIN recorders :
       ( /\ recorders[i].onstop = "queued"
         /\ ~recorders[i].misused
         /\ lastCall' = [op |-> "stop", rec |-> i, outcome |-> "returned", msg |-> "",
                         duration |-> lastCall'.duration] )
         => lastCall'.duration = RoundToSeconds(recorders[i].recordedMs)]_vars

\* The chunks and the pause accounting of a recorder.
Accounting(r) == << r.audioChunks, r.startTime, r.pausedDuration, r.pauseStartTime >>

\* C13: start() throws on a recorder that is not initialized, pause() unless
\* the recorder is recording, resume() unless it is paused, and stop() is
\* rejected when recording was never started; a call that throws leaves the
\* chunks and the pause accounting as they were.
C13_OutOfOrderRejected ==
  [][\A i \in DOMAIN recorders :
       LET r == recorders[i]
           c == lastCall'
       IN (c # lastCall /\ c.rec = i)
            => /\ (c.op = "start" /\ r.mediaRecorder = "null") => c.outcome = "threw"
               /\ (c.op = "pause" /\ ~(r.mediaRecorder = "set" /\ r.state = "recording"))
                    => c.outcome = "threw"
               /\ (c.op = "resume" /\ ~(r.mediaRecorder = "set" /\ r.state = "paused"))
                    => c.outcome = "threw"
               /\ (c.op = "stop" /\ ~r.started) => c.outcome = "threw"
               /\ (c.op \in {"start", "pause", "resume", "stop"} /\ c.outcome = "threw")
                    => Accounting(recorders'[i]) = Accounting(r)]_vars

\* The recorder holds neither a stream nor a MediaRecorder, and the tracks of
\* the stream it acquired, if any, are stopped.
Released(r, ss) ==
  /\ r.stream = 0
  /\ r.mediaRecorder = "null"
  /\ r.acquired # 0 => ss[r.acquired] = "ended"

\* C14: when initialize() fails, for whatever reason, and when stop()
\* resolves, the recorder has released the input device: every track of the
\* stream it acquired is stopped and it holds neither stream nor MediaRecorder.
C14_DeviceReleased ==
  [][\A i \in DOMAIN recorders :
       ( /\ lastCall' # lastCall
         /\ lastCall'.rec = i
         /\ \/ lastCall'.op = "initialize" /\ lastCall'.outcome = "threw"
            \/ lastCall'.op = "stop" /\ lastCall'.outcome = "returned" )
         => Released(recorders'[i], streams')]_vars

\* C14, its case: initialize() has failed after getUserMedia had handed out a
\* stream, and the tracks of that stream are stopped.
C14_Witness ==
  \E i \in DOMAIN recorders :
    /\ lastCall.op = "initialize" /\ lastCall.outcome = "threw" /\ lastCall.rec = i
    /\ recorders[i].acquired # 0
    /\ streams[recorders[i].acquired] = "ended"

\* The recorder holds a stream whose tracks are live.
HoldsLiveStream(i) ==
  recorders[i].stream # 0 /\ streams[recorders[i].stream] = "live"

\* C15: at most one AudioRecorder holds a live microphone stream, and a
\* recorder that holds one is the one the mounted controls reference.
C15_OneRecorderHoldsTheMicrophone ==
  /\ Cardinality({i \in DOMAIN recorders : HoldsLiveStream(i)}) <= 1
  /\ \A i \in DOMAIN recorders :
       HoldsLiveStream(i) => (controlsMounted /\ ref = i)

\* The keys of the rows of a result.
Ids(rows) == {rows[i].id : i \in 1..Len(rows)}

\* Each row of a result is a stored row, and none is there twice.
StoredOnce(rows) ==
  /\ Cardinality(Ids(rows)) = Len(rows)
  /\ \A i \in 1..Len(rows) :
       /\ rows[i].id \in DOMAIN recordings
       /\ rows[i].row = recordings[rows[i].id]

\* C16: the row saveRecording stored is the row getRecording returns under
\* the id saveRecording returned; after updateRecording getRecording returns
\* the previous row with the fields of the update replaced and every other
\* field as it was.
C16_RoundTrip ==
  /\ (returned.op = "save" /\ returned.outcome = "returned") =>
       getRecording(recordings, returned.id) = [found |-> TRUE, row |-> returned.row]
  /\ (returned.op = "update" /\ returned.outcome = "returned"
      /\ returned.id \in DOMAIN returned.before) =>
       LET got == getRecording(recordings, returned.id)
       IN /\ got.found
          /\ \A f \in RowFields :
               got.row[f] = IF f \in DOMAIN returned.updates
                            THEN returned.updates[f]
                            ELSE returned.before[returned.id][f]

\* An update of a stored row has been made and has changed it.
C16_Witness ==
  /\ returned.op = "update" /\ returned.outcome = "returned"
  /\ returned.id \in DOMAIN returned.before
  /\ recordings # returned.before

\* C17: updateRecording of an id the store does not hold fails, and leaves the
\* store as it was.
C17_UpdateOfAbsentIdFails ==
  (returned.op = "update" /\ returned.id \notin DOMAIN returned.before) =>
    /\ returned.outcome = "threw"
    /\ recordings = returned.before

\* C18: getAllRecordings returns every stored row exactly once, no row before
\* one of a later date; from an empty store it returns the empty sequence.
C18_AllRecordsNewestFirst ==
  returned.op = "getAll" =>
    /\ StoredOnce(returned.rows)
    /\ Ids(returned.rows) = DOMAIN recordings
    /\ \A i, j \in 1..Len(returned.rows) :
         i < j => returned.rows[i].row.date >= returned.rows[j].row.date
    /\ (DOMAIN recordings = {} => returned.rows = <<>>)

\* Two rows are listed, the one saved first being the newer.
C18_Witness ==
  /\ returned.op = "getAll"
  /\ Len(returned.rows) = 2
  /\ returned.rows[1].id < returned.rows[2].id
  /\ returned.rows[1].row.date > returned.rows[2].row.date

\* The row has one of the listed tags.
HasOneOf(row, tags) ==
  row.tags # Undefined /\ {row.tags[i] : i \in 1..Len(row.tags)}
                          \cap {tags[j] : j \in 1..Len(tags)} # {}

\* The row satisfies the criteria of the filters that Given(name) selects.
Satisfies(row, filters, Given(_)) ==
  /\ Given("searchQuery") => matchesQuery(row, filters.searchQuery)
  /\ Given("tags") => HasOneOf(row, filters.tags)
  /\ Given("category") => row.category = filters.category
  /\ Given("status") => row.status = filters.status
  /\ Given("isStudied") => row.isStudied = filters.isStudied
  /\ Given("priority") => row.priority = filters.priority
  /\ Given("dateFrom") => row.date >= filters.dateFrom
  /\ Given("dateTo") => row.date <= filters.dateTo

\* A criterion is supplied when the filters hold a value for it.
Supplied(filters, name) ==
  CASE name \in {"searchQuery", "tags", "category"} -> filters[name] # Undefined
    [] name \in {"status", "isStudied", "priority"} -> filters[name] # Absent
    [] OTHER -> filters[name] # NoDate

\* A criterion is in force when the filters hold a value for it that is not
\* empty: a query that is not blank, a list of tags that is not empty, a
\* category that is not the empty string.
InForce(filters, name) ==
  /\ Supplied(filters, name)
  /\ name = "searchQuery" => trim(filters.searchQuery) # <<>>
  /\ name \in {"tags", "category"} => filters[name] # <<>>

Folded(query) == toLowerCase(SelectSeq(query, LAMBDA c : c # ","))

\* C20: two queries that differ only in letter case or in punctuation return
\* the same records, from searchRecordings and from the free-text criterion
\* of filterRecordings.
C20_MatchIgnoresCaseAndPunctuation ==
  /\ returned.op = "search" =>
       \A other \in QueryInputs :
         Folded(other) = Folded(returned.query) =>
           Ids(searchRecordings(recordings, other)) = Ids(returned.rows)
  /\ (returned.op = "filter" /\ returned.filters.searchQuery # Undefined) =>
       \A other \in QueryInputs :
         Folded(other) = Folded(returned.filters.searchQuery) =>
           Ids(filterRecordings(recordings,
                 [returned.filters EXCEPT !.searchQuery = other]))
             = Ids(returned.rows)

\* C27: a stored record has an errorMessage only if its status is error.
C27_ErrorMessageOnlyWithError ==
  \A r \in DOMAIN store :
    store[r].errorMessage # NoError => store[r].status = "error"

\* C29: when a call of handleGenerateNotes ends (its finally block runs), the
\* stored status of its record is complete or error.
C29_EndsCompleteOrError ==
  [][\A i \in DOMAIN inv :
       (inv[i].pc # "done" /\ inv'[i].pc = "done") =>
         store'[inv[i].rec].status \in {"complete", "error"}]_vars

\* The text is empty or consists of spaces only.
Blank(t) == \A k \in DOMAIN t : t[k] = SP

\* C23: a call to which the provider returned an empty or whitespace-only
\* text fails with the empty-result error and keeps no transcript, and no
\* stored transcript is empty or whitespace-only.
C23_NoBlankTranscript ==
  /\ \A i \in DOMAIN inv :
       (inv[i].whisperText # Undefined /\ Blank(inv[i].whisperText)) =>
         /\ inv[i].err = MsgEmptyTranscription
         /\ inv[i].transcriptText = <<>>
         /\ inv[i].pc = "error"
  /\ \A r \in DOMAIN store :
       store[r].transcript # Undefined => ~Blank(store[r].transcript)

\* The provider has returned a text of spaces only and the call has failed.
C23_Witness ==
  \E i \in DOMAIN inv :
    /\ inv[i].whisperText = <<SP>>
    /\ inv[i].err = MsgEmptyTranscription
    /\ inv[i].calledWhisper

\* C22: transcribeAudio sends the request for a payload of exactly 25 MB, and
\* for a payload of one byte more it throws the size error and sends nothing.
C22_SizeBoundary ==
  [][\A i \in DOMAIN inv :
       (inv[i].pc = "transcribing" /\ inv'[i].pc # "transcribing") =>
         /\ inv[i].recording.audioBytes <= MaxSavedBytes =>
              (inv'[i].pc = "whisper" /\ inv'[i].calledWhisper)
         /\ inv[i].recording.audioBytes >= MaxSavedBytes + 1 =>
              (inv'[i].err = MsgAudioTooLarge /\ ~inv'[i].calledWhisper)]_vars

\* A payload of 25 MB and one byte has been refused.
C22_Witness ==
  \E i \in DOMAIN inv :
    /\ inv[i].recording.audioBytes = MaxSavedBytes + 1
    /\ inv[i].err = MsgAudioTooLarge
    /\ ~inv[i].calledWhisper

\* C28: once handleStopRecording has ended after stop() resolved (the
\* recording saved, refused for its size, or not saved), the controls are
\* idle: isRecording and isPaused are false and no recorder is referenced.
C28_StopReturnsToIdle ==
  (/\ lastCall.op = "stop"
   /\ lastCall.outcome = "returned"
   /\ recorders[lastCall.rec].pending = "none") =>
    (~isRecording /\ ~isPaused /\ ref = 0)

\* The fields the upgrade adds.
UpgradeFields == {"tags", "isStudied", "lastModified", "searchText"}

\* C25: the upgrade to version 2 adds and removes no row; every row keeps its
\* id and the values of its original fields and gains tags = [], isStudied =
\* false, lastModified = its date and searchText = its normalized text.
C25_UpgradeLosesNothing ==
  returned.op = "upgrade" =>
    /\ DOMAIN recordings = DOMAIN returned.before
    /\ \A id \in DOMAIN recordings :
         /\ \A f \in RowFields \ UpgradeFields :
              recordings[id][f] = returned.before[id][f]
         /\ recordings[id].tags = <<>>
         /\ recordings[id].isStudied = "false"
         /\ recordings[id].lastModified = returned.before[id].date
         /\ recordings[id].searchText = generateSearchText(returned.before[id])

\* A table of two rows, one of them renamed and transcribed, has been upgraded.
C25_Witness ==
  /\ returned.op = "upgrade"
  /\ Cardinality(DOMAIN recordings) = 2
  /\ \E id \in DOMAIN recordings :
       /\ recordings[id].customName = <<"b">>
       /\ recordings[id].transcript = <<"a">>
       /\ recordings[id].searchText = <<"a", SP, "b", SP, "b", SP, "a">>

\* The text is there and contains the query as it was typed.
Contains(text, query) == text # Undefined /\ includes(text, query)

\* C21: a stored row whose current transcript or notes contain the query is
\* among the rows searchRecordings returns.
C21_SearchSeesCurrentText ==
  (returned.op = "search" /\ trim(returned.query) # <<>>) =>
    \A id \in DOMAIN recordings :
      (\/ Contains(recordings[id].transcript, returned.query)
       \/ Contains(recordings[id].notes, returned.query)) =>
        id \in Ids(returned.rows)

\* The instance holds something of the browser: a running audio context, a
\* queued frame request or a running loop.
VisualizerLive(v) == v.context = "running" \/ v.scheduled \/ v.isActive

\* cleanup() has released everything the instance held.
ResourcesReleased(v) ==
  /\ ~v.audioContext /\ ~v.analyserNode /\ ~v.dataArray
  /\ v.context # "running"
  /\ ~v.isActive /\ ~v.animationFrameId /\ ~v.scheduled

\* C26: an instance on which cleanup() was called has released its audio
\* context, analyser, data array and frame request and its callback is never
\* called again; a render with changed props and the unmount clean up the
\* instance the component referenced; every live instance is the one the
\* component references, so at most one is live.
C26_VisualizerReleased ==
  [][/\ \A i \in DOMAIN visualizers' :
          /\ visualizers'[i].cleaned => ResourcesReleased(visualizers'[i])
          /\ VisualizerLive(visualizers'[i]) => i = visualizerRef'
     /\ \A i \in DOMAIN visualizers :
          /\ visualizers[i].cleaned =>
               visualizers'[i].callbacks = visualizers[i].callbacks
          /\ (/\ i = visualizerRef
              /\ << isRecording', isPaused', audioStream', visualizerMounted' >>
                   # << isRecording, isPaused, audioStream, visualizerMounted >>)
               => visualizers'[i].cleaned]_vars

\* An instance whose callback ran was cleaned up by a render that paused the
\* recording, and a second instance is running after the resume.
C26_Witness ==
  /\ Len(visualizers) = 2
  /\ visualizers[1].cleaned /\ visualizers[1].callbacks = MaxFrames
  /\ visualizers[1].context = "closed"
  /\ visualizerRef = 2 /\ visualizers[2].isActive /\ visualizers[2].scheduled

\* The fields handleGenerateNotes names in its updates.
WorkflowFields == {"status", "transcript", "notes", "errorMessage"}

\* The calls of handleGenerateNotes that took a step.
Stepped == {i \in DOMAIN inv' : i \notin DOMAIN inv \/ inv'[i] # inv[i]}

\* C24: a step of handleGenerateNotes running on record A adds and removes no
\* row and changes nothing but the status, transcript, notes and errorMessage
\* of A: filename, customName, date, duration, audio and tags of A, a
\* customName saved while the call was in flight included, and every field of
\* every other record stay as they are.
C24_WorkflowTouchesOnlyItsRecord ==
  [][\A i \in Stepped :
       /\ DOMAIN store' = DOMAIN store
       /\ \A r \in DOMAIN store : \A f \in DOMAIN store[r] :
            store'[r][f] # store[r][f] =>
              (r = inv'[i].rec /\ f \in WorkflowFields)]_vars

\* Record 1 was renamed and its workflow has written the notes, while record 2
\* is being transcribed and still has every other field as saved.
C24_Witness ==
  /\ DOMAIN store = {1, 2}
  /\ store[1].customName = <<"b">>
  /\ store[1].status = "complete" /\ store[1].notes # Undefined
  /\ store[2].status = "transcribing"
  /\ store[2] = [ItemRecording EXCEPT !.status = "transcribing"]
  /\ \E i \in DOMAIN inv : inv[i].rec = 1 /\ inv[i].pc = "complete"

\* C30: a record that was deleted stays deleted: no update of
\* handleGenerateNotes adds a row, and a row that is added gets an id greater
\* than every id handed out before, so never the id of a deleted record.
C30_DeletedStaysDeleted ==
  [][/\ \A r \in DOMAIN store' \ DOMAIN store :
          r > autoIncrement /\ inv' = inv
     /\ \A r \in DOMAIN store' : r <= autoIncrement']_vars

\* Record 1 was deleted while its workflow was in flight; the workflow has
\* made its last update and the recording saved afterwards has id 2.
C30_Witness ==
  /\ DOMAIN store = {2}
  /\ \E i \in DOMAIN inv :
       /\ inv[i].rec = 1
       /\ inv[i].pc = "complete"
       /\ inv[i].wrote = <<"transcribing", "transcribed", "generating_notes", "complete">>

====
